---- MODULE Spec2Model ----
(***************************************************************************)
(* A state-machine model of the Conecta+ web client:                       *)
(*   - AppContent (src/App.tsx): the authentication-gated router, the      *)
(*     lastSeen presence heartbeat and the OneSignal subscription sync;    *)
(*   - MessagesModal (src/components/messages/MessagesModal.tsx): diary    *)
(*     publishing, the followed-diaries fetch and startConversationWithUser*)
(*   - ConnectionStreakShareModal: generateImage and handlePublish.        *)
(* Firestore calls are atomic at the step where their promise settles.     *)
(* A React state change, its re-render and the effects whose dependencies  *)
(* changed are one step.                                                   *)
(***************************************************************************)
EXTENDS Integers, Sequences, FiniteSets, TLC

\* ------------------------------------------------------------------ ids
\* A uid is a string, modelled as the sequence of its UTF-16 code units.
\* Null (no user) is the empty sequence.
Null == <<>>
UA == <<97>>        \* "a"
UB == <<66>>        \* "B"
UC == <<97, 98>>    \* "ab"
Users == {UA, UB, UC}
AppUsers == {UA, UB}

\* OneSignal push subscription ids; NoSub is a null/absent id.
NoSub == "none"
SubIds == {"sub1"}

\* The concurrent runs of the OneSignal sync callback that are tracked.
SyncSlots == {1, 2}

\* The most sync callbacks held in the deferred queue at once.
MaxDeferred == 3

VARIABLES
    \* ---- AppContent (src/App.tsx)
    copy,            \* which of the two AppContent versions of App.tsx runs
    osUser,          \* OneSignal.User is available
    osPush,          \* OneSignal.User.PushSubscription is available
    authUser,        \* auth.currentUser
    authPending,     \* an onAuthStateChanged callback is due
    authSeen,        \* ghost: an auth-state callback has been received
    user,            \* useState user
    loading,         \* useState loading
    authPage,        \* useState authPage
    mounted,         \* what renderApp mounted at the last render
    intervals,       \* uids whose setInterval(updateUserLastSeen) is live
    visHandlers,     \* uids whose visibilitychange handler is attached
    unloadHandlers,  \* uids whose beforeunload handler is attached
    userDocs,        \* the users collection
    writeTick,       \* ghost: flips at every step that issues lastSeen writes
    issuedNow,       \* ghost: targets of the lastSeen writes of that step
    listenerAttached,\* window.oneSignalListenerAttached
    listenerCalls,   \* ghost: addEventListener('change') calls, capped
    subId,           \* OneSignal.User.PushSubscription.id
    externalId,      \* OneSignal.User.getExternalId()
    deferred,        \* OneSignalDeferred: the queued sync callbacks (their user)
    syncs,           \* the runs of the sync callback
    syncEnd          \* ghost: how the latest step of a sync run left it

VARIABLES
    \* ---- MessagesModal (src/components/messages/MessagesModal.tsx)
    now,               \* the clock, in hours
    diaries,           \* the diaries collection
    sessUser,          \* auth.currentUser of each session
    isOpen,            \* prop isOpen of each session's modal
    snapPending,       \* a latest-diary snapshot is due to the session
    myLatestDiary,     \* useState myLatestDiary
    hasPostedToday,    \* useState hasPostedToday
    newDiaryEntry,     \* useState newDiaryEntry
    isPublishingDiary, \* useState isPublishingDiary
    pendingDiary,      \* the addDoc in flight: the document it carries
    following,         \* users/{UA}/following: the uids UA follows
    fetchRuns,         \* the runs of fetchDiaries in flight
    followedDiaries,   \* useState followedDiaries
    diariesLoading,    \* useState diariesLoading
    listedAt,          \* ghost: when the run that set followedDiaries started
    conversations,     \* Firestore: the conversations collection, by document id
    messages,          \* Firestore: the documents of the messages subcollections
    convRuns,          \* the invocations of startConversationWithUser
    activeConversationId,  \* useState activeConversationId
    view,              \* useState view
    viewingDiary       \* useState viewingDiary

\* ConnectionStreakShareModal
VARIABLES
    shareOpen,         \* prop isOpen
    streak,            \* prop crystalData.streak
    hasPhoto,          \* prop currentUser?.photoURL is truthy
    canvasCount,       \* the canvas elements mounted so far
    canvasRef,         \* canvasRef.current: 0 for null, else the element
    canvases,          \* the content of each canvas element
    generatedImage,    \* useState generatedImage: NoImage for null
    isGenerating,      \* useState isGenerating
    isPublishing,      \* useState isPublishing
    error,             \* useState error
    genRuns,           \* the runs of generateImage awaiting the image loads
    pubRun,            \* the toBlob callback of handlePublish
    pulses             \* Firestore: the images of the pulses documents

routerVars == <<authUser, authPending, authSeen, user, loading, authPage, mounted>>
presenceVars == <<intervals, visHandlers, unloadHandlers, writeTick, issuedNow>>
pushVars == <<copy, osUser, osPush, listenerAttached, listenerCalls, subId, externalId,
             deferred, syncs, syncEnd>>
appVars == <<routerVars, presenceVars, pushVars, userDocs>>

dbVars == <<now, diaries>>
diaryVars == <<snapPending, myLatestDiary, hasPostedToday, newDiaryEntry,
               isPublishingDiary, pendingDiary>>
modalVars == <<sessUser, isOpen>>
fetchVars == <<following, fetchRuns, followedDiaries, diariesLoading, listedAt>>
convDb == <<conversations, messages>>
convUi == <<activeConversationId, view, viewingDiary>>
convVars == <<convDb, convRuns, convUi>>
msgVars == <<dbVars, diaryVars, modalVars, fetchVars, convVars>>

shareProps == <<shareOpen, streak, hasPhoto>>
shareCanvas == <<canvasCount, canvasRef, canvases>>
shareState == <<generatedImage, isGenerating, isPublishing, error>>
shareVars == <<shareProps, shareCanvas, shareState, genRuns, pubRun, pulses>>

vars == <<appVars, msgVars, shareVars>>
notApp == <<msgVars, shareVars>>
notMsg == <<appVars, convVars, shareVars>>
notConv == <<appVars, dbVars, diaryVars, fetchVars, sessUser, shareVars>>
notShare == <<appVars, msgVars>>

\* ================================================================ App.tsx

\* renderApp: the set of components it mounts.
RenderAppNoSpinner(ld, u, page) ==
    IF u = Null THEN (IF page = "login" THEN {"Login"} ELSE {"SignUp"})
    ELSE {"Feed"}

RenderApp(ld, u, page) ==
    IF ld THEN {"spinner"}
    ELSE IF u = Null THEN (IF page = "login" THEN {"Login"} ELSE {"SignUp"})
    ELSE {"Feed"}

\* updateUserLastSeen of each registration in targets: updateDoc(userDocRef,
\* {lastSeen: serverTimestamp()}), fire and forget (a rejection is only logged).
\* The lastSeen field itself is not part of the model: the step records which
\* documents the writes were issued for.
UpdateUserLastSeen(targets) ==
    /\ writeTick' = 1 - writeTick
    /\ issuedNow' = targets

\* The cleanup of the lastSeen effect (clearInterval, removeEventListener x2):
\* what stays registered, per kind of registration, after it has run.
CleanupLeakInterval(kind, registered) ==
    IF kind = "interval" THEN registered ELSE {}

CleanupKeeps(kind, registered) == {}

\* The lastSeen effect for the new value of user: cleanup of the previous run,
\* then (for a non-null user) one immediate write and the registrations.
LastSeenEffect(u) ==
    /\ intervals' = CleanupKeeps("interval", intervals) \cup (IF u = Null THEN {} ELSE {u})
    /\ visHandlers' = CleanupKeeps("visibilitychange", visHandlers) \cup (IF u = Null THEN {} ELSE {u})
    /\ unloadHandlers' = CleanupKeeps("beforeunload", unloadHandlers) \cup (IF u = Null THEN {} ELSE {u})
    /\ IF u = Null
       THEN UNCHANGED <<writeTick, issuedNow>>
       ELSE UpdateUserLastSeen({u})

FreeSlots == {i \in SyncSlots : syncs[i].pc = "done"}

\* The OneSignal effect: pushes one sync callback, closed over user.
OneSignalEffect(u) ==
    /\ Len(deferred) < MaxDeferred
    /\ deferred' = Append(deferred, u)

\* Firebase auth: sign-in and sign-out; the auth-state callback follows later.
SignIn(u) ==
    /\ UNCHANGED notApp
    /\ authUser = Null
    /\ authUser' = u
    /\ authPending' = TRUE
    /\ UNCHANGED <<authSeen, user, loading, authPage, mounted>>
    /\ UNCHANGED <<presenceVars, pushVars, userDocs>>

SignOut ==
    /\ UNCHANGED notApp
    /\ authUser # Null
    /\ authUser' = Null
    /\ authPending' = TRUE
    /\ UNCHANGED <<authSeen, user, loading, authPage, mounted>>
    /\ UNCHANGED <<presenceVars, pushVars, userDocs>>

\* The onAuthStateChanged callback, the render it causes and the [user] effects.
AuthStateChanged ==
    /\ UNCHANGED notApp
    /\ authPending
    /\ authPending' = FALSE
    /\ authSeen' = TRUE
    /\ user' = authUser
    /\ loading' = FALSE
    /\ mounted' = RenderApp(FALSE, authUser, authPage)
    /\ UNCHANGED <<authUser, authPage>>
    /\ IF authUser # user
       THEN /\ LastSeenEffect(authUser)
            /\ OneSignalEffect(authUser)
            /\ UNCHANGED <<copy, osUser, osPush, listenerAttached, listenerCalls,
                           subId, externalId, syncs, syncEnd, userDocs>>
       ELSE UNCHANGED <<presenceVars, pushVars, userDocs>>

\* switchAuthPage, from the Login / SignUp screens.
SwitchAuthPage(page) ==
    /\ UNCHANGED notApp
    /\ mounted \cap {"Login", "SignUp"} # {}
    /\ page # authPage
    /\ authPage' = page
    /\ mounted' = RenderApp(loading, user, page)
    /\ UNCHANGED <<authUser, authPending, authSeen, user, loading>>
    /\ UNCHANGED <<presenceVars, pushVars, userDocs>>

\* The 5-minute interval of one registration fires.
IntervalFire(u) ==
    /\ UNCHANGED notApp
    /\ u \in intervals
    /\ UpdateUserLastSeen({u})
    /\ UNCHANGED <<intervals, visHandlers, unloadHandlers>>
    /\ UNCHANGED <<routerVars, pushVars, userDocs>>

\* document visibilitychange: every attached handler runs.
VisibilityChange(state) ==
    /\ UNCHANGED notApp
    /\ visHandlers # {}
    /\ IF state = "visible"
       THEN UpdateUserLastSeen(visHandlers)
       ELSE UNCHANGED <<writeTick, issuedNow>>
    /\ UNCHANGED <<intervals, visHandlers, unloadHandlers>>
    /\ UNCHANGED <<routerVars, pushVars, userDocs>>

\* window beforeunload: every attached handler runs.
BeforeUnload ==
    /\ UNCHANGED notApp
    /\ unloadHandlers # {}
    /\ UpdateUserLastSeen(unloadHandlers)
    /\ UNCHANGED <<intervals, visHandlers, unloadHandlers>>
    /\ UNCHANGED <<routerVars, pushVars, userDocs>>

\* ---------------------------------------------------------- OneSignal sync

SetPlayerId(docs, u, id) == [docs EXCEPT ![u].oneSignalPlayerId = id]

\* The attachment without window.oneSignalListenerAttached = true.
AttachListenerNoFlag ==
    IF listenerAttached
    THEN UNCHANGED <<listenerAttached, listenerCalls>>
    ELSE /\ listenerAttached' = FALSE
         /\ listenerCalls' = IF osPush /\ listenerCalls < 2
                              THEN listenerCalls + 1 ELSE listenerCalls

\* if (!window.oneSignalListenerAttached) { ...addEventListener('change', ...) }
\* Version 2 sets the flag even when PushSubscription is missing.
AttachListener ==
    IF listenerAttached
    THEN UNCHANGED <<listenerAttached, listenerCalls>>
    ELSE /\ listenerAttached' = TRUE
         /\ listenerCalls' = IF osPush /\ listenerCalls < 2
                              THEN listenerCalls + 1 ELSE listenerCalls

\* A slot without a run.
Idle == [pc |-> "done", user |-> Null, sub |-> NoSub]

\* The ghost record of a step of a run: still going, or ended.
RunState(r) == IF r.pc = "done" THEN "ended" ELSE "running"

\* After OneSignal.login (and registerForPushNotifications): read the current
\* subscription id and go on to getDoc when there is one.
ReadSubscription(u) ==
    IF osPush /\ subId # NoSub
    THEN [pc |-> "getDoc", user |-> u, sub |-> subId]
    ELSE Idle

\* The sync callback at the head of the queue starts and runs to its first await.
SyncRun(i) ==
    /\ UNCHANGED notApp
    /\ deferred # <<>>
    /\ i \in FreeSlots
    /\ \A j \in FreeSlots : i <= j
    /\ deferred' = Tail(deferred)
    /\ LET u == Head(deferred) IN
       IF ~osUser
       THEN \* version 2: OneSignal.User missing, return
            /\ syncs' = [syncs EXCEPT ![i] = Idle]
            /\ UNCHANGED <<listenerAttached, listenerCalls>>
       ELSE /\ AttachListener
            /\ syncs' = [syncs EXCEPT ![i] =
                 IF u # Null
                 THEN IF copy = 2 /\ externalId = u
                      THEN ReadSubscription(u)
                      ELSE [pc |-> "login", user |-> u, sub |-> NoSub]
                 ELSE IF copy = 2 /\ externalId = Null
                      THEN Idle
                      ELSE [pc |-> "logout", user |-> u, sub |-> NoSub]]
    /\ syncEnd' = RunState(syncs'[i])
    /\ UNCHANGED <<copy, osUser, osPush, subId, externalId>>
    /\ UNCHANGED <<routerVars, presenceVars, userDocs>>

\* await OneSignal.login(user.uid) [; await registerForPushNotifications()]
SyncLoginDone(i) ==
    /\ UNCHANGED notApp
    /\ syncs[i].pc = "login"
    /\ externalId' = syncs[i].user
    /\ syncs' = [syncs EXCEPT ![i] = ReadSubscription(syncs[i].user)]
    /\ syncEnd' = RunState(syncs'[i])
    /\ UNCHANGED <<copy, osUser, osPush, listenerAttached, listenerCalls, subId, deferred>>
    /\ UNCHANGED <<routerVars, presenceVars, userDocs>>

\* After getDoc: does the sync go on to updateDoc?
NeedsUpdateInverted(d, sub) == d.exists /\ d.oneSignalPlayerId = sub

NeedsUpdate(d, sub) == d.exists /\ d.oneSignalPlayerId # sub

\* await getDoc(userDocRef) settles.
SyncGetDocDone(i, ok) ==
    /\ UNCHANGED notApp
    /\ syncs[i].pc = "getDoc"
    /\ syncs' = [syncs EXCEPT ![i] =
         IF ok /\ NeedsUpdate(userDocs[syncs[i].user], syncs[i].sub)
         THEN [syncs[i] EXCEPT !.pc = "updateDoc"]
         ELSE Idle]
    /\ syncEnd' = IF ok THEN RunState(syncs'[i]) ELSE "error"
    /\ UNCHANGED <<copy, osUser, osPush, listenerAttached, listenerCalls, subId,
                   externalId, deferred>>
    /\ UNCHANGED <<routerVars, presenceVars, userDocs>>

\* updateDoc(userDocRef, {oneSignalPlayerId: id}): updates an existing document
\* and never creates one.
SyncWrite(docs, u, id) ==
    IF docs[u].exists THEN SetPlayerId(docs, u, id) ELSE docs

\* await updateDoc(userDocRef, {oneSignalPlayerId: subscriptionId}) settles.
SyncUpdateDocDone(i, ok) ==
    /\ UNCHANGED notApp
    /\ syncs[i].pc = "updateDoc"
    /\ userDocs' = IF ok THEN SyncWrite(userDocs, syncs[i].user, syncs[i].sub)
                   ELSE userDocs
    /\ syncs' = [syncs EXCEPT ![i] = Idle]
    /\ syncEnd' = IF ok /\ userDocs[syncs[i].user].exists THEN "updated" ELSE "error"
    /\ UNCHANGED <<copy, osUser, osPush, listenerAttached, listenerCalls, subId,
                   externalId, deferred>>
    /\ UNCHANGED <<routerVars, presenceVars>>

\* await OneSignal.logout() settles.
SyncLogoutDone(i) ==
    /\ UNCHANGED notApp
    /\ syncs[i].pc = "logout"
    /\ externalId' = Null
    /\ syncs' = [syncs EXCEPT ![i] = Idle]
    /\ syncEnd' = RunState(syncs'[i])
    /\ UNCHANGED <<copy, osUser, osPush, listenerAttached, listenerCalls, subId, deferred>>
    /\ UNCHANGED <<routerVars, presenceVars, userDocs>>

\* The listener body writing for the user of the effect run (the closure's
\* user) instead of auth.currentUser.
ChangeListenerClosureUser(docs, id, ok) ==
    IF /\ user # Null
       /\ (copy = 1 \/ id # NoSub)
       /\ ok
    THEN SyncWrite(docs, user, id)
    ELSE docs

\* The 'change' listener body, for the new subscription id.
\* Version 1 writes id || null for any logged-in user; version 2 writes only a
\* non-empty id. The target is auth.currentUser at the time of the event.
ChangeListener(docs, id, ok) ==
    IF /\ authUser # Null
       /\ (copy = 1 \/ id # NoSub)
       /\ ok
    THEN SyncWrite(docs, authUser, id)
    ELSE docs

\* OneSignal reports a changed push subscription (subscribe, unsubscribe, new id).
PushSubscriptionChange(id, ok) ==
    /\ UNCHANGED notApp
    /\ osPush
    /\ id # subId
    /\ subId' = id
    /\ IF listenerCalls > 0
       THEN userDocs' = ChangeListener(userDocs, id, ok)
       ELSE /\ ok
            /\ UNCHANGED userDocs
    /\ UNCHANGED <<copy, osUser, osPush, listenerAttached, listenerCalls, externalId,
                   deferred, syncs, syncEnd>>
    /\ UNCHANGED <<routerVars, presenceVars>>

\* ------------------------------------------------------------ App: Init/Next

NoDoc == [exists |-> FALSE, oneSignalPlayerId |-> NoSub]
FreshDoc == [exists |-> TRUE, oneSignalPlayerId |-> NoSub]

\* The state after AppContent has mounted: no auth callback yet, the mount run
\* of the OneSignal effect has queued one sync callback for user = null; under
\* the development double effect run of <StrictMode> (strict) it has queued two.
AppConfigs ==
    {c \in [copy : {1, 2}, osUser : BOOLEAN, osPush : BOOLEAN, strict : BOOLEAN,
            docs : [AppUsers -> {NoDoc, FreshDoc}]] :
        /\ (c.copy = 1 => c.osUser /\ c.osPush)
        /\ c.docs[UA].exists}

\* For the sync: UA has a user document, UB has none.
PushConfigs == {c \in AppConfigs : ~c.docs[UB].exists}

InitApp(configs) ==
    /\ \E c \in configs :
          /\ copy = c.copy
          /\ osUser = c.osUser
          /\ osPush = c.osPush
          /\ userDocs = c.docs
    /\ authUser = Null
    /\ authPending = TRUE
    /\ authSeen = FALSE
    /\ user = Null
    /\ loading = TRUE
    /\ authPage = "login"
    /\ mounted = RenderApp(TRUE, Null, "login")
    /\ intervals = {}
    /\ visHandlers = {}
    /\ unloadHandlers = {}
    /\ writeTick = 0
    /\ issuedNow = {}
    /\ listenerAttached = FALSE
    /\ listenerCalls = 0
    /\ subId = NoSub
    /\ externalId = Null
    /\ \E c \in configs :
          deferred = IF c.strict THEN <<Null, Null>> ELSE <<Null>>
    /\ syncs = [i \in SyncSlots |-> Idle]
    /\ syncEnd = "none"

\* The router and the presence heartbeat (the OneSignal SDK has not loaded:
\* the queued sync callbacks wait).
NextApp ==
    \/ \E u \in AppUsers : SignIn(u)
    \/ SignOut
    \/ AuthStateChanged
    \/ \E page \in {"login", "signup"} : SwitchAuthPage(page)
    \/ \E u \in AppUsers : IntervalFire(u)
    \/ \E st \in {"visible", "hidden"} : VisibilityChange(st)
    \/ BeforeUnload


\* The OneSignal subscription sync, driven by the auth-state changes.
NextPush ==
    \/ \E u \in AppUsers : SignIn(u)
    \/ SignOut
    \/ AuthStateChanged
    \/ \E i \in SyncSlots : SyncRun(i)
    \/ \E i \in SyncSlots : SyncLoginDone(i)
    \/ \E i \in SyncSlots, ok \in BOOLEAN : SyncGetDocDone(i, ok)
    \/ \E i \in SyncSlots, ok \in BOOLEAN : SyncUpdateDocDone(i, ok)
    \/ \E i \in SyncSlots : SyncLogoutDone(i)
    \/ \E id \in {NoSub} \cup SubIds, ok \in BOOLEAN : PushSubscriptionChange(id, ok)


\* ======================================================= MessagesModal.tsx

\* Two sessions (tabs or devices), each with its own MessagesModal.
Sessions == {1, 2}

\* Hours per day: 24 * 60 * 60 * 1000 ms, in the model's unit of one hour.
HoursPerDay == 24

\* The clock advances by TickHours up to MaxNow.
TickHours == 12
MaxNow == 48

\* The most documents the diaries collection holds.
MaxDiaries == 2

\* The calendar day of a time (new Date(seconds * 1000): getDate, getMonth,
\* getFullYear), in the local time zone, taken as the clock's.
Day(t) == t \div HoursPerDay

\* No diary (null). A createdAt of 0 is a missing timestamp.
NoDiary == [id |-> 0, userId |-> Null, text |-> <<>>, createdAt |-> 0, seenAt |-> 0]

\* isToday(timestamp), evaluated at time t.
IsTodayAlways(ts, t) == FALSE

IsToday(ts, t) ==
    IF ts = 0 THEN FALSE ELSE Day(ts) = Day(t)

\* String.prototype.trim on a sequence of code units (32 is the space).
RECURSIVE TrimLeft(_)
TrimLeft(t) ==
    IF t = <<>> THEN <<>>
    ELSE IF Head(t) = 32 THEN TrimLeft(Tail(t)) ELSE t

RECURSIVE TrimRight(_)
TrimRight(t) ==
    IF t = <<>> THEN <<>>
    ELSE IF t[Len(t)] = 32 THEN TrimRight(SubSeq(t, 1, Len(t) - 1)) ELSE t

Trim(t) == TrimRight(TrimLeft(t))

\* What the user can have typed into the diary form: "", " ", " x".
DiaryTexts == {<<>>, <<32>>, <<32, 120>>}

\* The query where('userId', '==', uid), orderBy('createdAt', 'desc'), limit(1).
LatestDiaryOf(u) ==
    LET mine == {d \in diaries : d.userId = u /\ d.createdAt # 0} IN
    IF mine = {} THEN NoDiary
    ELSE CHOOSE d \in mine :
            \A e \in mine : e.createdAt < d.createdAt
                            \/ (e.createdAt = d.createdAt /\ e.id <= d.id)

\* The sessions whose latest-diary listener is notified of a change to u's diaries.
Notified(u) == {t \in Sessions : isOpen[t] /\ sessUser[t] = u}

\* The modal opens: the [isOpen, currentUser] effect subscribes to the user's
\* latest diary, and the first snapshot is due.
OpenModal(s) ==
    /\ UNCHANGED <<notMsg, fetchVars>>
    /\ ~isOpen[s]
    /\ isOpen' = [isOpen EXCEPT ![s] = TRUE]
    /\ snapPending' = [snapPending EXCEPT ![s] = (sessUser[s] # Null)]
    /\ UNCHANGED <<dbVars, sessUser, myLatestDiary, hasPostedToday, newDiaryEntry,
                   isPublishingDiary, pendingDiary>>

\* The modal closes: the effect cleanup unsubscribes. The component state stays.
CloseModal(s) ==
    /\ UNCHANGED <<notMsg, fetchVars>>
    /\ isOpen[s]
    /\ isOpen' = [isOpen EXCEPT ![s] = FALSE]
    /\ snapPending' = [snapPending EXCEPT ![s] = FALSE]
    /\ UNCHANGED <<dbVars, sessUser, myLatestDiary, hasPostedToday, newDiaryEntry,
                   isPublishingDiary, pendingDiary>>

\* The onSnapshot callback of the latest-diary query.
DiarySnapshot(s) ==
    /\ UNCHANGED <<notMsg, fetchVars>>
    /\ isOpen[s]
    /\ snapPending[s]
    /\ LET latestDiary == LatestDiaryOf(sessUser[s]) IN
       /\ myLatestDiary' = [myLatestDiary EXCEPT ![s] = latestDiary]
       /\ hasPostedToday' = [hasPostedToday EXCEPT ![s] =
              IF latestDiary = NoDiary THEN FALSE
              ELSE IsToday(latestDiary.createdAt, now)]
    /\ snapPending' = [snapPending EXCEPT ![s] = FALSE]
    /\ UNCHANGED <<dbVars, modalVars, newDiaryEntry, isPublishingDiary, pendingDiary>>

\* The diary textarea (disabled while hasPostedToday).
TypeDiary(s, text) ==
    /\ UNCHANGED <<notMsg, fetchVars>>
    /\ isOpen[s]
    /\ ~hasPostedToday[s]
    /\ text # newDiaryEntry[s]
    /\ newDiaryEntry' = [newDiaryEntry EXCEPT ![s] = text]
    /\ UNCHANGED <<dbVars, modalVars, snapPending, myLatestDiary, hasPostedToday,
                   isPublishingDiary, pendingDiary>>

\* The submit button of the diary form is enabled.
PublishButtonEnabled(s) ==
    ~(isPublishingDiary[s] \/ Trim(newDiaryEntry[s]) = <<>> \/ hasPostedToday[s])

\* The guard of handlePublishDiary: it returns when this is false.
PublishGuard(s) ==
    ~(sessUser[s] = Null \/ Trim(newDiaryEntry[s]) = <<>> \/ hasPostedToday[s])

\* handlePublishDiary up to its await: the addDoc is issued.
\* seenAt is a ghost: the createdAt of the latest diary the session had been shown.
HandlePublishDiary(s) ==
    /\ UNCHANGED <<notMsg, fetchVars>>
    /\ isOpen[s]
    /\ PublishButtonEnabled(s)
    /\ PublishGuard(s)
    /\ isPublishingDiary' = [isPublishingDiary EXCEPT ![s] = TRUE]
    /\ pendingDiary' = [pendingDiary EXCEPT ![s] =
           [id |-> 0, userId |-> sessUser[s], text |-> Trim(newDiaryEntry[s]),
            createdAt |-> 0, seenAt |-> myLatestDiary[s].createdAt]]
    /\ UNCHANGED <<dbVars, modalVars, snapPending, myLatestDiary, hasPostedToday,
                   newDiaryEntry>>

\* await addDoc(collection(db, 'diaries'), ...) settles; createdAt is the
\* server's time. Then setNewDiaryEntry('') on success, and the finally block.
AddDiaryDone(s, ok) ==
    /\ UNCHANGED <<notMsg, fetchVars>>
    /\ isPublishingDiary[s]
    /\ IF ok
       THEN /\ Cardinality(diaries) < MaxDiaries
            /\ diaries' = diaries \cup
                 {[pendingDiary[s] EXCEPT !.id = Cardinality(diaries) + 1,
                                          !.createdAt = now]}
            /\ newDiaryEntry' = [newDiaryEntry EXCEPT ![s] = <<>>]
            /\ snapPending' = [t \in Sessions |->
                                 snapPending[t] \/ t \in Notified(sessUser[s])]
       ELSE UNCHANGED <<diaries, newDiaryEntry, snapPending>>
    /\ isPublishingDiary' = [isPublishingDiary EXCEPT ![s] = FALSE]
    /\ pendingDiary' = [pendingDiary EXCEPT ![s] = NoDiary]
    /\ UNCHANGED <<now, modalVars, myLatestDiary, hasPostedToday>>

\* Time passes.
Tick ==
    /\ UNCHANGED notMsg
    /\ now + TickHours <= MaxNow
    /\ now' = now + TickHours
    /\ UNCHANGED <<diaries, diaryVars, modalVars, fetchVars>>

\* ------------------------------------------------------------ fetchDiaries

\* The sessions whose followed-diaries fetch is tracked, and its overlapping runs.
FetchSessions == {1}
FetchSlots == {1, 2}

\* where('userId', 'in', chunk) takes at most 30 values.
ChunkSize == 30

\* String comparison by UTF-16 code units (the default of Array.prototype.sort
\* and the order of document ids).
RECURSIVE LexLess(_, _)
LexLess(a, b) ==
    IF b = <<>> THEN FALSE
    ELSE IF a = <<>> THEN TRUE
    ELSE IF Head(a) # Head(b) THEN Head(a) < Head(b)
    ELSE LexLess(Tail(a), Tail(b))

\* The uids of a set, in document-id order.
RECURSIVE IdsInOrder(_)
IdsInOrder(S) ==
    IF S = {} THEN <<>>
    ELSE LET m == CHOOSE x \in S : \A y \in S : y = x \/ LexLess(x, y)
         IN <<m>> \o IdsInOrder(S \ {m})

\* for (i = 0; i < ids.length; i += 30) chunks.push(ids.slice(i, i + 30))
RECURSIVE ChunksOf(_)
ChunksOf(ids) ==
    IF ids = <<>> THEN <<>>
    ELSE IF Len(ids) <= ChunkSize THEN <<ids>>
    ELSE <<SubSeq(ids, 1, ChunkSize)>> \o ChunksOf(SubSeq(ids, ChunkSize + 1, Len(ids)))

Range(q) == {q[i] : i \in 1..Len(q)}

\* The documents of a set, in document-id order (ids are given in creation order).
RECURSIVE DocsInOrder(_)
DocsInOrder(S) ==
    IF S = {} THEN <<>>
    ELSE LET m == CHOOSE x \in S : \A y \in S : x.id <= y.id
         IN <<m>> \o DocsInOrder(S \ {m})

\* The filter of the diariesSnap.forEach callback: createdAt.seconds is there
\* and lies after twentyFourHoursAgo.
KeptInclusive(d, cutoff) == d.createdAt # 0 /\ d.createdAt >= cutoff

Kept(d, cutoff) == d.createdAt # 0 /\ d.createdAt > cutoff

\* One chunk's query result, filtered, in snapshot order.
ChunkDiaries(chunk, cutoff) ==
    LET hits == {d \in diaries : d.userId \in Range(chunk) /\ Kept(d, cutoff)}
    IN DocsInOrder(hits)

\* latestDiariesMap that keeps the first diary seen of each user.
RECURSIVE LatestMapKeepsFirst(_, _)
LatestMapKeepsFirst(all, map) ==
    IF all = <<>> THEN map
    ELSE LET d == Head(all)
             at == {i \in 1..Len(map) : map[i].userId = d.userId}
         IN IF at = {}
            THEN LatestMapKeepsFirst(Tail(all), Append(map, d))
            ELSE LatestMapKeepsFirst(Tail(all), map)

\* latestDiariesMap, as the sequence of its values in insertion order:
\* a diary replaces its user's entry when its createdAt.seconds is greater.
RECURSIVE LatestMap(_, _)
LatestMap(all, map) ==
    IF all = <<>> THEN map
    ELSE LET d == Head(all)
             at == {i \in 1..Len(map) : map[i].userId = d.userId}
         IN IF at = {}
            THEN LatestMap(Tail(all), Append(map, d))
            ELSE LET i == CHOOSE j \in at : TRUE
                 IN IF d.createdAt > map[i].createdAt
                    THEN LatestMap(Tail(all), [map EXCEPT ![i] = d])
                    ELSE LatestMap(Tail(all), map)

\* Array.prototype.sort((a, b) => b.createdAt.seconds - a.createdAt.seconds):
\* stable, createdAt descending.
RECURSIVE InsertDesc(_, _)
InsertDesc(sorted, d) ==
    IF sorted = <<>> THEN <<d>>
    ELSE IF Head(sorted).createdAt >= d.createdAt
         THEN <<Head(sorted)>> \o InsertDesc(Tail(sorted), d)
         ELSE <<d>> \o sorted

RECURSIVE SortDesc(_)
SortDesc(q) ==
    IF q = <<>> THEN <<>>
    ELSE InsertDesc(SortDesc(SubSeq(q, 1, Len(q) - 1)), q[Len(q)])

\* getTimeRemaining(createdAt) at time t: null once the 24 hours are over,
\* else the whole hours left (minutes under one hour).
NoLabel == [unit |-> "null", n |-> 0]
GetTimeRemaining(createdAt, t) ==
    LET remaining == createdAt + HoursPerDay - t IN
    IF remaining <= 0 THEN NoLabel
    ELSE IF remaining > 0 THEN [unit |-> "h", n |-> remaining]
    ELSE [unit |-> "m", n |-> 0]

NoRun == [pc |-> "done", sess |-> 0, cutoff |-> 0, startedAt |-> 0,
          chunks |-> <<>>, all |-> <<>>]

FreeFetchSlots == {r \in FetchSlots : fetchRuns[r].pc = "done"}

\* The modal opens: the [isOpen, currentUser] effect sets diariesLoading and
\* starts fetchDiaries with twentyFourHoursAgo = now - 24 h.
OpenModalFetch(s) ==
    /\ UNCHANGED <<notMsg, dbVars, diaryVars, sessUser>>
    /\ ~isOpen[s]
    /\ sessUser[s] # Null
    /\ isOpen' = [isOpen EXCEPT ![s] = TRUE]
    /\ diariesLoading' = [diariesLoading EXCEPT ![s] = TRUE]
    /\ \E r \in FreeFetchSlots :
          /\ \A q \in FreeFetchSlots : r <= q
          /\ fetchRuns' = [fetchRuns EXCEPT ![r] =
                [pc |-> "following", sess |-> s, cutoff |-> now - HoursPerDay,
                 startedAt |-> now, chunks |-> <<>>, all |-> <<>>]]
    /\ UNCHANGED <<following, followedDiaries, listedAt>>

\* The modal closes: this effect has no cleanup, a run in flight goes on.
CloseModalFetch(s) ==
    /\ UNCHANGED <<notMsg, dbVars, diaryVars, sessUser>>
    /\ isOpen[s]
    /\ isOpen' = [isOpen EXCEPT ![s] = FALSE]
    /\ UNCHANGED fetchVars

\* setFollowedDiaries(list); setDiariesLoading(false) of run r
SetFollowed(r, list) ==
    /\ followedDiaries' = [followedDiaries EXCEPT ![fetchRuns[r].sess] = list]
    /\ diariesLoading' = [diariesLoading EXCEPT ![fetchRuns[r].sess] = FALSE]
    /\ listedAt' = [listedAt EXCEPT ![fetchRuns[r].sess] = fetchRuns[r].startedAt]

\* await getDocs(followingRef) settles. A rejection ends the run in
\* fetchDiaries().catch(console.error).
FollowingDone(r, ok) ==
    /\ UNCHANGED <<notMsg, dbVars, diaryVars, modalVars, following>>
    /\ fetchRuns[r].pc = "following"
    /\ IF ~ok
       THEN /\ fetchRuns' = [fetchRuns EXCEPT ![r] = NoRun]
            /\ UNCHANGED <<followedDiaries, diariesLoading, listedAt>>
       ELSE LET followingIds == IdsInOrder(following) IN
            IF Len(followingIds) = 0
            THEN /\ SetFollowed(r, <<>>)
                 /\ fetchRuns' = [fetchRuns EXCEPT ![r] = NoRun]
            ELSE /\ fetchRuns' = [fetchRuns EXCEPT ![r].pc = "diaries",
                                                   ![r].chunks = ChunksOf(followingIds)]
                 /\ UNCHANGED <<followedDiaries, diariesLoading, listedAt>>

\* await getDocs(diariesQuery) of the next chunk settles; after the last chunk
\* the latest diary per user is kept, sorted and stored.
ChunkDone(r, ok) ==
    /\ UNCHANGED <<notMsg, dbVars, diaryVars, modalVars, following>>
    /\ fetchRuns[r].pc = "diaries"
    /\ IF ~ok
       THEN /\ fetchRuns' = [fetchRuns EXCEPT ![r] = NoRun]
            /\ UNCHANGED <<followedDiaries, diariesLoading, listedAt>>
       ELSE LET allDiaries == fetchRuns[r].all \o
                                ChunkDiaries(Head(fetchRuns[r].chunks), fetchRuns[r].cutoff)
                rest == Tail(fetchRuns[r].chunks)
            IN IF rest # <<>>
               THEN /\ fetchRuns' = [fetchRuns EXCEPT ![r].chunks = rest,
                                                      ![r].all = allDiaries]
                    /\ UNCHANGED <<followedDiaries, diariesLoading, listedAt>>
               ELSE /\ SetFollowed(r, SortDesc(LatestMap(allDiaries, <<>>)))
                    /\ fetchRuns' = [fetchRuns EXCEPT ![r] = NoRun]

\* Another client adds a diary of a followed user; stamped is false for a
\* document whose createdAt has no seconds.
RemotePublish(u, stamped) ==
    /\ UNCHANGED <<notMsg, diaryVars, modalVars, fetchVars, now>>
    /\ Cardinality(diaries) < MaxDiaries
    /\ diaries' = diaries \cup
          {[id |-> Cardinality(diaries) + 1, userId |-> u, text |-> <<120>>,
            createdAt |-> IF stamped THEN now ELSE 0, seenAt |-> 0]}

\* ------------------------------------------------------------ conversations

ConvSlots == {1, 2}

Underscore == 95

\* Array.prototype.sort() of a two-element array of strings: ascending by
\* UTF-16 code units, the first kept first when neither is smaller.
SortPairUnsorted(a, b) == <<a, b>>

SortPair(a, b) == IF LexLess(b, a) THEN <<b, a>> ELSE <<a, b>>

\* Array.prototype.join(sep) of an array of strings
RECURSIVE Join(_, _)
Join(q, sep) ==
    IF q = <<>> THEN <<>>
    ELSE IF Len(q) = 1 THEN Head(q)
    ELSE Head(q) \o sep \o Join(Tail(q), sep)

\* [currentUserId, targetUserId].sort().join('_')
ConversationId(currentUserId, targetUserId) ==
    Join(SortPair(currentUserId, targetUserId), <<Underscore>>)

ConvIds == {ConversationId(a, b) : a \in Users, b \in Users}

NoMessage == [senderId |-> Null, text |-> <<>>]
NoConv == [exists |-> FALSE, participants |-> <<>>, timestamp |-> 0,
           lastMessage |-> NoMessage]

NoConvRun == [pc |-> "idle", sess |-> 0, cur |-> Null, target |-> Null,
              id |-> Null, msg |-> <<>>, issued |-> <<>>]

\* Each slot holds one invocation of a behaviour, from its call to its end.
FreeConvSlots == {r \in ConvSlots : convRuns[r].pc = "idle"}

\* An invocation of startConversationWithUser by session s, up to its first
\* await: the id is derived and getDoc is issued.
StartConversationWithUser(s, targetUserId, initialMessage) ==
    IF sessUser[s] = Null
    THEN UNCHANGED convRuns
    ELSE \E r \in FreeConvSlots :
               /\ \A q \in FreeConvSlots : r <= q
               /\ convRuns' = [convRuns EXCEPT ![r] =
                     [pc |-> "getDoc", sess |-> s, cur |-> sessUser[s],
                      target |-> targetUserId,
                      id |-> ConversationId(sessUser[s], targetUserId),
                      msg |-> initialMessage, issued |-> <<"getDoc">>]]

\* The effect with its two prop checks in the other order.
OpenModalConvTargetFirst(s, initialTargetUser, initialConversationId) ==
    /\ UNCHANGED <<notConv, convDb, view, viewingDiary>>
    /\ ~isOpen[s]
    /\ isOpen' = [isOpen EXCEPT ![s] = TRUE]
    /\ IF initialTargetUser # Null
       THEN /\ StartConversationWithUser(s, initialTargetUser, <<>>)
            /\ UNCHANGED activeConversationId
       ELSE IF initialConversationId # Null
       THEN /\ activeConversationId' =
                  [activeConversationId EXCEPT ![s] = initialConversationId]
            /\ UNCHANGED convRuns
       ELSE /\ activeConversationId' = [activeConversationId EXCEPT ![s] = Null]
            /\ UNCHANGED convRuns

\* The [isOpen, initialTargetUser, initialConversationId] effect when the
\* modal opens with the given props.
OpenModalConv(s, initialTargetUser, initialConversationId) ==
    /\ UNCHANGED <<notConv, convDb, view, viewingDiary>>
    /\ ~isOpen[s]
    /\ isOpen' = [isOpen EXCEPT ![s] = TRUE]
    /\ IF initialConversationId # Null
       THEN /\ activeConversationId' =
                  [activeConversationId EXCEPT ![s] = initialConversationId]
            /\ UNCHANGED convRuns
       ELSE IF initialTargetUser # Null
       THEN /\ StartConversationWithUser(s, initialTargetUser, <<>>)
            /\ UNCHANGED activeConversationId
       ELSE /\ activeConversationId' = [activeConversationId EXCEPT ![s] = Null]
            /\ UNCHANGED convRuns

\* The same effect when the modal closes.
CloseModalConv(s) ==
    /\ UNCHANGED <<notConv, convDb, convRuns, viewingDiary>>
    /\ isOpen[s]
    /\ isOpen' = [isOpen EXCEPT ![s] = FALSE]
    /\ activeConversationId' = [activeConversationId EXCEPT ![s] = Null]
    /\ view' = [view EXCEPT ![s] = "list"]

\* renderContent shows the list (header, carousel, ConversationList).
ListShown(s) == isOpen[s] /\ activeConversationId[s] = Null /\ view[s] = "list"

\* The new-message button of the list header.
SetViewNew(s) ==
    /\ UNCHANGED <<notConv, isOpen, convDb, convRuns,
                   activeConversationId, viewingDiary>>
    /\ ListShown(s)
    /\ view' = [view EXCEPT ![s] = "new"]

\* NewMessage calls onSelectUser with the user picked.
SelectUser(s, target) ==
    /\ UNCHANGED <<notConv, isOpen, convDb, convUi>>
    /\ isOpen[s] /\ activeConversationId[s] = Null /\ view[s] = "new"
    /\ StartConversationWithUser(s, target, <<>>)

\* A carousel entry is clicked: onViewDiary={setViewingDiary}.
ViewDiary(s, i) ==
    /\ UNCHANGED <<notConv, isOpen, convDb, convRuns,
                   activeConversationId, view>>
    /\ ListShown(s) /\ ~diariesLoading[s]
    /\ i \in 1..Len(followedDiaries[s])
    /\ viewingDiary' = [viewingDiary EXCEPT ![s] = followedDiaries[s][i]]

\* The reply form of the diary overlay is submitted.
ReplyToDiary(s, replyText) ==
    /\ UNCHANGED <<notConv, isOpen, convDb, convUi>>
    /\ isOpen[s] /\ viewingDiary[s] # NoDiary
    /\ IF Trim(replyText) # <<>>
       THEN StartConversationWithUser(s, viewingDiary[s].userId, replyText)
       ELSE UNCHANGED convRuns

\* ChatWindow's onBack
ChatBack(s) ==
    /\ UNCHANGED <<notConv, isOpen, convDb, convRuns, view, viewingDiary>>
    /\ isOpen[s] /\ activeConversationId[s] # Null
    /\ activeConversationId' = [activeConversationId EXCEPT ![s] = Null]

\* catch (error) { console.error(...) }: the run ends, no state is set.
CatchResetsView(r) ==
    /\ activeConversationId' = [activeConversationId EXCEPT ![convRuns[r].sess] = Null]
    /\ view' = [view EXCEPT ![convRuns[r].sess] = "list"]
    /\ UNCHANGED viewingDiary

CatchConversationError(r) == UNCHANGED convUi

\* A Firestore step of run r rejects.
ConvStepFails(r) ==
    /\ convRuns' = [convRuns EXCEPT ![r].pc = "failed"]
    /\ CatchConversationError(r)
    /\ UNCHANGED convDb

\* setActiveConversationId(conversationId); setView('list'); setViewingDiary(null)
ConvFinish(r) ==
    /\ convRuns' = [convRuns EXCEPT ![r].pc = "finished"]
    /\ activeConversationId' =
          [activeConversationId EXCEPT ![convRuns[r].sess] = convRuns[r].id]
    /\ view' = [view EXCEPT ![convRuns[r].sess] = "list"]
    /\ viewingDiary' = [viewingDiary EXCEPT ![convRuns[r].sess] = NoDiary]

\* Run r issues its next call.
ConvIssue(r, call) ==
    /\ convRuns' = [convRuns EXCEPT ![r].pc = call,
                                     ![r].issued = Append(convRuns[r].issued, call)]
    /\ UNCHANGED convUi

\* if (initialMessage) { addDoc ...; updateDoc ... } and the state setters
ConvAfterEnsure(r) ==
    IF convRuns[r].msg # <<>> THEN ConvIssue(r, "addDoc") ELSE ConvFinish(r)

\* await getDoc(conversationRef) settles.
ConvGetDocDone(r, ok) ==
    /\ UNCHANGED <<notConv, isOpen>>
    /\ convRuns[r].pc = "getDoc"
    /\ IF ~ok THEN ConvStepFails(r)
       ELSE /\ IF ~conversations[convRuns[r].id].exists
               THEN ConvIssue(r, "setDoc")
               ELSE ConvIssue(r, "updateDoc")
            /\ UNCHANGED convDb

\* await setDoc(conversationRef, {participants, participantInfo, timestamp}) settles.
ConvSetDocDone(r, ok) ==
    /\ UNCHANGED <<notConv, isOpen>>
    /\ convRuns[r].pc = "setDoc"
    /\ IF ~ok THEN ConvStepFails(r)
       ELSE /\ conversations' = [conversations EXCEPT ![convRuns[r].id] =
                  [exists |-> TRUE,
                   participants |-> <<convRuns[r].cur, convRuns[r].target>>,
                   timestamp |-> conversations[convRuns[r].id].timestamp + 1,
                   lastMessage |-> NoMessage]]
            /\ UNCHANGED messages
            /\ ConvAfterEnsure(r)

\* await updateDoc(conversationRef, {timestamp}) settles; it rejects when the
\* document is not there.
ConvUpdateDocDone(r, ok) ==
    /\ UNCHANGED <<notConv, isOpen>>
    /\ convRuns[r].pc = "updateDoc"
    /\ IF ~ok \/ ~conversations[convRuns[r].id].exists THEN ConvStepFails(r)
       ELSE /\ conversations' = [conversations EXCEPT ![convRuns[r].id].timestamp = @ + 1]
            /\ UNCHANGED messages
            /\ ConvAfterEnsure(r)

\* await addDoc(collection(conversationRef, 'messages'), {...}) settles.
ConvAddDocDone(r, ok) ==
    /\ UNCHANGED <<notConv, isOpen>>
    /\ convRuns[r].pc = "addDoc"
    /\ IF ~ok THEN ConvStepFails(r)
       ELSE /\ messages' = Append(messages,
                  [conv |-> convRuns[r].id, senderId |-> convRuns[r].cur,
                   text |-> convRuns[r].msg])
            /\ UNCHANGED conversations
            /\ ConvIssue(r, "updateLastMessage")

\* await updateDoc(conversationRef, {lastMessage}) settles.
ConvLastMessageDone(r, ok) ==
    /\ UNCHANGED <<notConv, isOpen>>
    /\ convRuns[r].pc = "updateLastMessage"
    /\ IF ~ok \/ ~conversations[convRuns[r].id].exists THEN ConvStepFails(r)
       ELSE /\ conversations' = [conversations EXCEPT ![convRuns[r].id].lastMessage =
                  [senderId |-> convRuns[r].cur, text |-> convRuns[r].msg]]
            /\ UNCHANGED messages
            /\ ConvFinish(r)

\* ------------------------------------------------------------ share modal

MinStreak == 2
MaxStreak == 7
Streaks == MinStreak..MaxStreak
MaxCanvases == 2
GenSlots == {1, 2}

\* 1. Draw Background: the fill style chosen by the streak.
BackgroundStrict(k) ==
    IF k < 3 THEN [kind |-> "solid", stops |-> <<"#374151">>]
    ELSE IF k < 6 THEN [kind |-> "linear", stops |-> <<"#3B82F6", "#6366F1">>]
    ELSE [kind |-> "linear", stops |-> <<"#F59E0B", "#EF4444", "#8B5CF6">>]

Background(k) ==
    IF k <= 3 THEN [kind |-> "solid", stops |-> <<"#374151">>]
    ELSE IF k <= 6 THEN [kind |-> "linear", stops |-> <<"#3B82F6", "#6366F1">>]
    ELSE [kind |-> "linear", stops |-> <<"#F59E0B", "#EF4444", "#8B5CF6">>]

\* A canvas: whether the element gives a 2D context (getContext('2d') is not
\* null), its fill, whether avatars and text are drawn, the streaks of the
\* 'streakDays' texts drawn on it (in drawing order), and two ghosts:
\* filler is the run that filled it while that run awaits its avatars (0
\* otherwise), loadFailed tells that a run drawing on it since its last reset,
\* or the run that filled it, had an avatar fail to load.
NoFill == [kind |-> "none", stops |-> <<>>]
Blank == [ctx |-> TRUE, bg |-> NoFill, avatars |-> FALSE, text |-> FALSE,
          texts |-> <<>>, loadFailed |-> FALSE, filler |-> 0]
NoImage == Blank

\* A run of generateImage: the canvas and the crystalData.streak its closure
\* holds; last is a ghost marking the run the effect started most recently.
NoGenRun == [pc |-> "idle", canvas |-> 0, streak |-> 0, last |-> FALSE]
NoPubRun == [pc |-> "idle", image |-> NoImage]

FreeGenSlots == {r \in GenSlots : genRuns[r].pc # "loading"}

\* generateImage whose early returns leave isGenerating as it was set.
GenerateImageKeepsSpinner(ref, k, ctxOk) ==
    /\ generatedImage' = NoImage
    /\ UNCHANGED <<isPublishing, pubRun, pulses>>
    /\ isGenerating' = TRUE
    /\ IF ref = 0 \/ ~hasPhoto \/ ~ctxOk
       THEN /\ error' = "canvasError"
            /\ genRuns' = [q \in GenSlots |-> [genRuns[q] EXCEPT !.last = FALSE]]
            /\ canvases' = IF ref = 0 THEN canvases
                           ELSE [canvases EXCEPT ![ref].ctx = ctxOk]
       ELSE /\ error' = ""
            /\ \E r \in FreeGenSlots :
                  /\ \A q \in FreeGenSlots : r <= q
                  /\ canvases' = [canvases EXCEPT ![ref] =
                        [ctx |-> TRUE, bg |-> Background(k), avatars |-> FALSE,
                         text |-> FALSE, texts |-> <<>>,
                         loadFailed |-> FALSE, filler |-> r]]
                  /\ genRuns' = [q \in GenSlots |->
                        IF q = r
                        THEN [pc |-> "loading", canvas |-> ref, streak |-> k,
                              last |-> TRUE]
                        ELSE [genRuns[q] EXCEPT !.last = FALSE]]

\* generateImage up to its await: the state is reset; without a canvas, a
\* photoURL or a 2D context the run ends with the canvas error; else the
\* canvas is sized (which clears it), filled, and the two loads are awaited.
GenerateImage(ref, k, ctxOk) ==
    /\ generatedImage' = NoImage
    /\ UNCHANGED <<isPublishing, pubRun, pulses>>
    /\ IF ref = 0 \/ ~hasPhoto \/ ~ctxOk
       THEN /\ error' = "canvasError"
            /\ isGenerating' = FALSE
            /\ genRuns' = [q \in GenSlots |-> [genRuns[q] EXCEPT !.last = FALSE]]
            /\ canvases' = IF ref = 0 THEN canvases
                           ELSE [canvases EXCEPT ![ref].ctx = ctxOk]
       ELSE /\ error' = ""
            /\ isGenerating' = TRUE
            /\ \E r \in FreeGenSlots :
                  /\ \A q \in FreeGenSlots : r <= q
                  /\ canvases' = [canvases EXCEPT ![ref] =
                        [ctx |-> TRUE, bg |-> Background(k), avatars |-> FALSE,
                         text |-> FALSE, texts |-> <<>>,
                         loadFailed |-> FALSE, filler |-> r]]
                  /\ genRuns' = [q \in GenSlots |->
                        IF q = r
                        THEN [pc |-> "loading", canvas |-> ref, streak |-> k,
                              last |-> TRUE]
                        ELSE [genRuns[q] EXCEPT !.last = FALSE]]

\* isOpen becomes true: the canvas element is mounted and the effect runs.
ShareOpen(ctxOk) ==
    /\ UNCHANGED notShare
    /\ ~shareOpen
    /\ canvasCount < MaxCanvases
    /\ shareOpen' = TRUE
    /\ canvasCount' = canvasCount + 1
    /\ canvasRef' = canvasCount + 1
    /\ UNCHANGED <<streak, hasPhoto>>
    /\ GenerateImage(canvasCount + 1, streak, ctxOk)

\* isOpen becomes false: the component renders null, the canvas is unmounted;
\* the effect returns at once and the state is kept.
ShareClose ==
    /\ UNCHANGED notShare
    /\ shareOpen
    /\ shareOpen' = FALSE
    /\ canvasRef' = 0
    /\ UNCHANGED <<streak, hasPhoto, canvasCount, canvases, shareState,
                   genRuns, pubRun, pulses>>

\* crystalData changes while the modal is open: the effect runs again, on the
\* same canvas element.
CrystalDataChange(k) ==
    /\ UNCHANGED notShare
    /\ shareOpen
    /\ streak' = k
    /\ UNCHANGED <<shareOpen, hasPhoto, canvasCount, canvasRef>>
    /\ GenerateImage(canvasRef, k, canvases[canvasRef].ctx)

\* The error state after the try/catch around the two loads:
\* catch (e) { setError(t('crystal.imageLoadError')) }
LoadError(ok) == IF ok THEN error ELSE "imageLoadError"

\* Promise.all of the two loadImage calls settles: on success the avatars are
\* drawn, on a failed load the error is set; then text and watermark are
\* drawn, the data URL is stored and isGenerating is cleared. (Ghost: a
\* snapshot handlePublish took of the canvas this run had filled learns
\* whether its avatars failed to load.)
LoadDone(r, userOk, otherOk) ==
    /\ UNCHANGED <<notShare, shareProps, canvasCount, canvasRef>>
    /\ genRuns[r].pc = "loading"
    /\ LET c == genRuns[r].canvas
           ok == userOk /\ otherOk
           drawn == [canvases[c] EXCEPT !.avatars = @ \/ ok,
                                        !.loadFailed = @ \/ ~ok,
                                        !.text = TRUE,
                                        !.texts = Append(@, genRuns[r].streak),
                                        !.filler = IF @ = r THEN 0 ELSE @]
       IN /\ canvases' = [canvases EXCEPT ![c] = drawn]
          /\ pubRun' = IF pubRun.image.filler = r
                       THEN [pubRun EXCEPT !.image.filler = 0,
                                           !.image.loadFailed = @ \/ ~ok]
                       ELSE pubRun
          /\ error' = LoadError(ok)
          /\ generatedImage' = drawn
          /\ isGenerating' = FALSE
          /\ genRuns' = [genRuns EXCEPT ![r].pc = IF ok THEN "finished" ELSE "failed"]
    /\ UNCHANGED <<isPublishing, pulses>>

\* <Button disabled={isGenerating || isPublishing || !!error}>
PublishDisabled == isGenerating \/ isPublishing \/ error # ""

\* The publish button is clicked. toBlob either throws at once (caught: the
\* share error is set) or takes the callback and a snapshot of the canvas.
HandlePublish(toBlobThrows) ==
    /\ UNCHANGED <<notShare, shareProps, shareCanvas, genRuns, pulses>>
    /\ shareOpen
    /\ ~PublishDisabled
    /\ IF generatedImage = NoImage \/ canvasRef = 0
       THEN UNCHANGED <<shareState, pubRun>>
       ELSE /\ UNCHANGED <<generatedImage, isGenerating>>
            /\ IF toBlobThrows
               THEN /\ error' = "shareError"
                    /\ isPublishing' = FALSE
                    /\ pubRun' = [pubRun EXCEPT !.pc = "failed"]
               ELSE /\ error' = ""
                    /\ isPublishing' = TRUE
                    /\ pubRun' = [pc |-> "blob", image |-> canvases[canvasRef]]

\* A step of the async toBlob callback settles. A null blob or a rejected await
\* rejects the callback's promise, which nothing handles.
PublishStep(from, to, ok) ==
    /\ UNCHANGED <<notShare, shareProps, shareCanvas, shareState, genRuns>>
    /\ pubRun.pc = from
    /\ pubRun' = [pubRun EXCEPT !.pc = IF ok THEN to ELSE "failed"]

\* The callback is called with the blob, or with null.
BlobDone(ok) == PublishStep("blob", "uploadBytes", ok) /\ UNCHANGED pulses

\* await uploadBytes(pulseRef, blob) settles.
UploadBytesDone(ok) == PublishStep("uploadBytes", "getDownloadURL", ok) /\ UNCHANGED pulses

\* await getDownloadURL(pulseRef) settles.
GetDownloadURLDone(ok) == PublishStep("getDownloadURL", "addDoc", ok) /\ UNCHANGED pulses

\* await addDoc(collection(db, 'pulses'), {...}) settles; onPulseCreated().
AddPulseDone(ok) ==
    /\ PublishStep("addDoc", "published", ok)
    /\ pulses' = IF ok THEN pulses \cup {pubRun.image} ELSE pulses

InitShare(streaks, photos) ==
    /\ shareOpen = FALSE
    /\ streak \in streaks
    /\ hasPhoto \in photos
    /\ canvasCount = 0
    /\ canvasRef = 0
    /\ canvases = [c \in 1..MaxCanvases |-> Blank]
    /\ generatedImage = NoImage
    /\ isGenerating = TRUE
    /\ isPublishing = FALSE
    /\ error = ""
    /\ genRuns = [r \in GenSlots |-> NoGenRun]
    /\ pubRun = NoPubRun
    /\ pulses = {}

ShareIdle == InitShare({MinStreak}, {TRUE})

\* Image generation alone, for every streak the modal can be given; crystalData
\* changes to a new object carrying the same streak.
NextTiers ==
    \/ \E ctxOk \in BOOLEAN : ShareOpen(ctxOk)
    \/ ShareClose
    \/ CrystalDataChange(streak)
    \/ \E r \in GenSlots, userOk \in BOOLEAN, otherOk \in BOOLEAN : LoadDone(r, userOk, otherOk)

\* Generation and publishing; crystalData changes to a new object carrying
\* the same streak.
NextShare ==
    \/ \E ctxOk \in BOOLEAN : ShareOpen(ctxOk)
    \/ ShareClose
    \/ CrystalDataChange(streak)
    \/ \E r \in GenSlots, userOk \in BOOLEAN, otherOk \in BOOLEAN : LoadDone(r, userOk, otherOk)
    \/ \E toBlobThrows \in BOOLEAN : HandlePublish(toBlobThrows)
    \/ \E ok \in BOOLEAN : BlobDone(ok)
    \/ \E ok \in BOOLEAN : UploadBytesDone(ok)
    \/ \E ok \in BOOLEAN : GetDownloadURLDone(ok)
    \/ \E ok \in BOOLEAN : AddPulseDone(ok)

\* The modal of each session is mounted and closed; session 1 is UA's, session 2
\* is UA's second session or UB's.
SessionUsers == {f \in [Sessions -> {UA, UB}] : f[1] = UA}

InitMsg(users, follows, shown) ==
    /\ now = HoursPerDay
    /\ diaries \in shown
    /\ sessUser \in users
    /\ isOpen = [s \in Sessions |-> FALSE]
    /\ snapPending = [s \in Sessions |-> FALSE]
    /\ myLatestDiary = [s \in Sessions |-> NoDiary]
    /\ hasPostedToday = [s \in Sessions |-> FALSE]
    /\ newDiaryEntry = [s \in Sessions |-> <<>>]
    /\ isPublishingDiary = [s \in Sessions |-> FALSE]
    /\ pendingDiary = [s \in Sessions |-> NoDiary]
    /\ following \in follows
    /\ fetchRuns = [r \in FetchSlots |-> NoRun]
    /\ followedDiaries = [s \in Sessions |->
          IF s \in FetchSessions THEN DocsInOrder(diaries) ELSE <<>>]
    /\ diariesLoading = [s \in Sessions |-> ~(s \in FetchSessions /\ diaries # {})]
    /\ listedAt = [s \in Sessions |->
          IF s \in FetchSessions /\ diaries # {} THEN HoursPerDay ELSE 0]
    /\ conversations = [id \in ConvIds |-> NoConv]
    /\ messages = <<>>
    /\ convRuns = [r \in ConvSlots |-> NoConvRun]
    /\ activeConversationId = [s \in Sessions |-> Null]
    /\ view = [s \in Sessions |-> "list"]
    /\ viewingDiary = [s \in Sessions |-> NoDiary]

\* The part of the state a specification does not move stays at one value.
AppIdle == {[copy |-> 1, osUser |-> TRUE, osPush |-> TRUE, strict |-> FALSE,
             docs |-> [u \in AppUsers |-> FreshDoc]]}
MsgIdle == {[s \in Sessions |-> UA]}
NoFollows == {{}}
Follows == SUBSET {UB, UC}
\* The diaries an earlier fetch has listed in the carousel of session 1.
NoneShown == {{}}
OneShown == {{[id |-> 1, userId |-> UB, text |-> <<120>>,
               createdAt |-> HoursPerDay, seenAt |-> 0]}}

InitRouter == InitApp(AppConfigs) /\ InitMsg(MsgIdle, NoFollows, NoneShown) /\ ShareIdle

SpecApp == InitRouter /\ [][NextApp]_vars

InitPush == InitApp(PushConfigs) /\ InitMsg(MsgIdle, NoFollows, NoneShown) /\ ShareIdle

SpecPush == InitPush /\ [][NextPush]_vars

InitDiary == InitApp(AppIdle) /\ InitMsg(SessionUsers, NoFollows, NoneShown) /\ ShareIdle

\* Diary publishing: the latest-diary listener and handlePublishDiary.
NextDiary ==
    \/ \E s \in Sessions : OpenModal(s)
    \/ \E s \in Sessions : CloseModal(s)
    \/ \E s \in Sessions : DiarySnapshot(s)
    \/ \E s \in Sessions, text \in DiaryTexts : TypeDiary(s, text)
    \/ \E s \in Sessions : HandlePublishDiary(s)
    \/ \E s \in Sessions, ok \in BOOLEAN : AddDiaryDone(s, ok)
    \/ Tick

SpecDiary == InitDiary /\ [][NextDiary]_vars

\* The followed-diaries carousel of session 1 (UA), other clients publishing.
NextFetch ==
    \/ \E s \in FetchSessions : OpenModalFetch(s)
    \/ \E s \in FetchSessions : CloseModalFetch(s)
    \/ \E r \in FetchSlots, ok \in BOOLEAN : FollowingDone(r, ok)
    \/ \E r \in FetchSlots, ok \in BOOLEAN : ChunkDone(r, ok)
    \/ \E u \in {UB, UC}, stamped \in BOOLEAN : RemotePublish(u, stamped)
    \/ Tick

InitFetch == InitApp(AppIdle) /\ InitMsg(MsgIdle, Follows, NoneShown) /\ ShareIdle

SpecFetch == InitFetch /\ [][NextFetch]_vars

\* Conversations started by UA (session 1, a followed diary in its carousel)
\* and by UB (session 2).
ConvTargets == {Null, UA, UB}
ConvLinks == {Null, ConversationId(UA, UC)}
\* The values of the reply input: empty, blank, and two texts.
ReplyTexts == {<<>>, <<32>>, <<32, 120>>, <<121>>}

NextConv ==
    \/ \E s \in Sessions, tg \in ConvTargets, cid \in ConvLinks : OpenModalConv(s, tg, cid)
    \/ \E s \in Sessions : CloseModalConv(s)
    \/ \E s \in Sessions : SetViewNew(s)
    \/ \E s \in Sessions, u \in Users : SelectUser(s, u)
    \/ \E s \in Sessions, i \in 1..MaxDiaries : ViewDiary(s, i)
    \/ \E s \in Sessions, text \in ReplyTexts : ReplyToDiary(s, text)
    \/ \E s \in Sessions : ChatBack(s)
    \/ \E r \in ConvSlots, ok \in BOOLEAN : ConvGetDocDone(r, ok)
    \/ \E r \in ConvSlots, ok \in BOOLEAN : ConvSetDocDone(r, ok)
    \/ \E r \in ConvSlots, ok \in BOOLEAN : ConvUpdateDocDone(r, ok)
    \/ \E r \in ConvSlots, ok \in BOOLEAN : ConvAddDocDone(r, ok)
    \/ \E r \in ConvSlots, ok \in BOOLEAN : ConvLastMessageDone(r, ok)

InitConv == InitApp(AppIdle) /\ InitMsg(SessionUsers, {{UB}}, OneShown) /\ ShareIdle

SpecConv == InitConv /\ [][NextConv]_vars

InitTiers ==
    /\ InitApp(AppIdle)
    /\ InitMsg(MsgIdle, NoFollows, NoneShown)
    /\ InitShare(Streaks, {TRUE})

SpecTiers == InitTiers /\ [][NextTiers]_vars

InitPublish ==
    /\ InitApp(AppIdle)
    /\ InitMsg(MsgIdle, NoFollows, NoneShown)
    /\ InitShare({MaxStreak}, BOOLEAN)

SpecShare == InitPublish /\ [][NextShare]_vars

\* Overlapping runs of generateImage: crystalData changes between two streaks
\* of different tiers while earlier runs await their image loads; every
\* canvas element gives a 2D context.
OverlapStreaks == {MinStreak, MaxStreak}

NextOverlap ==
    \/ ShareOpen(TRUE)
    \/ ShareClose
    \/ \E k \in OverlapStreaks : CrystalDataChange(k)
    \/ \E r \in GenSlots, userOk \in BOOLEAN, otherOk \in BOOLEAN : LoadDone(r, userOk, otherOk)

InitOverlap ==
    /\ InitApp(AppIdle)
    /\ InitMsg(MsgIdle, NoFollows, NoneShown)
    /\ InitShare(OverlapStreaks, {TRUE})

SpecOverlap == InitOverlap /\ [][NextOverlap]_vars

\* Image generation with and without a photoURL, every image load settling:
\* the browser fires onload or onerror for each image it was given.
InitGenerate ==
    /\ InitApp(AppIdle)
    /\ InitMsg(MsgIdle, NoFollows, NoneShown)
    /\ InitShare({MaxStreak}, BOOLEAN)

LoadsSettle ==
    \A r \in GenSlots :
        WF_vars(\E userOk \in BOOLEAN, otherOk \in BOOLEAN : LoadDone(r, userOk, otherOk))

SpecGenerate == InitGenerate /\ [][NextTiers]_vars /\ LoadsSettle

\* ------------------------------------------------------------ App: claims

\* C3: the router is authentication-gated. Exactly one of spinner, auth flow
\* (Login or SignUp) and Feed is mounted; the spinner is mounted iff loading,
\* which is true iff no auth-state callback has been received; the Feed is
\* mounted only for loading = false and a non-null user, the auth flow only
\* for loading = false and a null user.
RouterGated ==
    /\ mounted \subseteq {"spinner", "Login", "SignUp", "Feed"}
    /\ Cardinality(mounted) = 1
    /\ ("spinner" \in mounted) <=> loading
    /\ loading <=> ~authSeen
    /\ ("Feed" \in mounted) => (~loading /\ user # Null)
    /\ (mounted \cap {"Login", "SignUp"} # {}) => (~loading /\ user = Null)

\* The Feed is mounted for a user after a logout and a second login.
RouterFeedMounted ==
    /\ mounted = {"Feed"}
    /\ user = UB
    /\ issuedNow = {UB}
    /\ Len(deferred) = 3

\* C4: every lastSeen write is issued for the document of the user of the
\* current state, and after user became null or another user nothing of the
\* previous user's effect run (interval, visibilitychange and beforeunload
\* handlers) is left to issue a write.
PresenceTargetsCurrentUser ==
    [][ /\ (writeTick' # writeTick) =>
            (issuedNow' # {} /\ issuedNow' \subseteq ({user'} \ {Null}))
        /\ (intervals' \cup visHandlers' \cup unloadHandlers') \subseteq ({user'} \ {Null})
      ]_vars

\* The user has logged out after a lastSeen write for UA; nothing is registered.
PresenceAfterLogout ==
    /\ authSeen
    /\ user = Null
    /\ issuedNow = {UA}
    /\ intervals \cup visHandlers \cup unloadHandlers = {}

\* C7: a sync run that ends after its getDoc or updateDoc without a Firestore
\* error, for a user whose document exists, leaves that document's
\* oneSignalPlayerId equal to the subscription id the run read; and no step
\* creates a user document that does not exist.
SyncSetsPlayerId ==
    [][ /\ \A i \in SyncSlots :
              ( /\ syncs[i].pc \in {"getDoc", "updateDoc"}
                /\ syncs'[i].pc = "done"
                /\ syncEnd' # "error"
                /\ userDocs[syncs[i].user].exists )
              => userDocs'[syncs[i].user].oneSignalPlayerId = syncs[i].sub
        /\ \A u \in AppUsers : ~userDocs[u].exists => ~userDocs'[u].exists
      ]_vars

\* A sync run has just written the subscription id to the document of UA.
SyncHasUpdated ==
    /\ syncEnd = "updated"
    /\ userDocs[UA].oneSignalPlayerId = "sub1"
    /\ subId = "sub1"

\* C18: addEventListener('change', ...) is called at most once per page
\* lifetime, whatever logins, logouts and runs of the sync callback happen
\* (two of them queued at mount under StrictMode); a call is made only by a
\* step that finds window.oneSignalListenerAttached false and sets it.
ListenerAttachedOnce ==
    [][ /\ listenerCalls' <= 1
        /\ listenerCalls' # listenerCalls =>
              (~listenerAttached /\ listenerAttached' /\ listenerCalls' = listenerCalls + 1)
        /\ listenerAttached => listenerAttached'
      ]_vars

\* C18 witness: the listener is attached, and after the mount callback the
\* callbacks of a login and of a logout have run too.
ListenerKeptAcrossLogout ==
    /\ listenerCalls = 1
    /\ listenerAttached
    /\ externalId = UA
    /\ user = Null
    /\ deferred = <<>>
    /\ \E i \in SyncSlots : syncs[i].pc = "logout"

\* C19: a push-subscription change event (the step that changes the
\* subscription id) changes no user document when auth.currentUser is null,
\* and otherwise at most the document of auth.currentUser, whose
\* oneSignalPlayerId becomes the event's id; the user of the effect run that
\* attached the listener plays no part.
ChangeWritesCurrentUser ==
    [][ (subId' # subId) =>
           /\ authUser = Null => userDocs' = userDocs
           /\ \A u \in AppUsers : userDocs'[u] # userDocs[u] =>
                  /\ u = authUser
                  /\ listenerCalls = 1
                  /\ userDocs'[u] = [userDocs[u] EXCEPT !.oneSignalPlayerId = subId']
      ]_vars

\* C19 witness: UA has signed in, no auth-state callback has been received
\* yet (the only sync callbacks, hence the attaching one, were queued for
\* user = null), and a change event has written its id to UA's document.
ChangeWroteBeforeAuthCallback ==
    /\ ~authSeen
    /\ user = Null
    /\ authUser = UA
    /\ listenerCalls = 1
    /\ subId = "sub1"
    /\ userDocs[UA].oneSignalPlayerId = "sub1"

\* ------------------------------------------------------- Messages: claims

\* C1 (as claimed): the diaries collection never holds two entries of one
\* user created on the same calendar day.
OneDiaryPerUserPerDay ==
    \A d \in diaries : \A e \in diaries :
        (d.userId = e.userId /\ Day(d.createdAt) = Day(e.createdAt)) => d = e

\* C1 (amended): a diary is added only by a submission made while the session's
\* hasPostedToday was false, so every diary was created on a later calendar day
\* than the latest diary the submitting session had been shown.
DiaryAfterLatestShown ==
    /\ \A d \in diaries : d.seenAt # 0 => Day(d.seenAt) < Day(d.createdAt)
    /\ \A s \in Sessions : isPublishingDiary[s] =>
          /\ pendingDiary[s].text # <<>>
          /\ pendingDiary[s].seenAt # 0 => Day(pendingDiary[s].seenAt) < Day(now)

\* A session that had been shown its diary of the day before has added a diary.
DiaryAddedNextDay ==
    \E d \in diaries : d.seenAt # 0 /\ Day(d.seenAt) < Day(d.createdAt)


\* ------------------------------------------------------------ fetchDiaries: claims

\* C5 as stated: at every moment the modal is open and the list is loaded,
\* every entry of followedDiaries is less than 24 hours old at that moment.
FollowedFreshNow ==
    \A s \in FetchSessions : (isOpen[s] /\ ~diariesLoading[s]) =>
        \A i \in 1..Len(followedDiaries[s]) :
            now - followedDiaries[s][i].createdAt < HoursPerDay

\* C5, amended: every entry of followedDiaries has a createdAt and was less
\* than 24 hours old when the fetch that listed it started (the list is
\* filtered once per opening, against the clock of that moment).
FollowedFreshAtFetch ==
    \A s \in FetchSessions :
        \A i \in 1..Len(followedDiaries[s]) :
            /\ followedDiaries[s][i].createdAt # 0
            /\ followedDiaries[s][i].userId \in following
            /\ listedAt[s] - followedDiaries[s][i].createdAt < HoursPerDay

\* C5 witness: the modal is open with a loaded list showing an entry whose
\* 24 hours have run out since the fetch (its time label is null).
FollowedEntryExpired ==
    \E s \in FetchSessions :
        /\ isOpen[s] /\ ~diariesLoading[s]
        /\ \E i \in 1..Len(followedDiaries[s]) :
              /\ GetTimeRemaining(followedDiaries[s][i].createdAt, now) = NoLabel
              /\ listedAt[s] - followedDiaries[s][i].createdAt < HoursPerDay


\* The diaries of user u that have createdAt seconds later than the cutoff.
FreshOf(u, cutoff) ==
    {d \in diaries : d.userId = u /\ d.createdAt # 0 /\ d.createdAt > cutoff}

\* C16: the list a run of fetchDiaries stores holds, for each followed user
\* with a diary created after the run's twentyFourHoursAgo, exactly one entry,
\* that user's diary of greatest createdAt; it holds nothing of other users
\* and nothing without createdAt seconds or older than 24 hours; it is in
\* createdAt-descending order; with nobody followed it is empty.
FetchLatestPerUser ==
    [][ \A r \in FetchSlots :
           /\ (fetchRuns[r].pc = "diaries" /\ ChunkDone(r, TRUE)
                  /\ fetchRuns'[r].pc = "done") =>
                 LET list == followedDiaries'[fetchRuns[r].sess]
                     cutoff == fetchRuns[r].cutoff
                 IN /\ \A u \in following : FreshOf(u, cutoff) # {} =>
                          /\ Cardinality({i \in 1..Len(list) : list[i].userId = u}) = 1
                          /\ \A i \in 1..Len(list) : list[i].userId = u =>
                                \A e \in FreshOf(u, cutoff) :
                                    e.createdAt <= list[i].createdAt
                    /\ \A i \in 1..Len(list) :
                          /\ list[i].userId \in following
                          /\ list[i] \in FreshOf(list[i].userId, cutoff)
                    /\ \A i \in 1..Len(list), j \in 1..Len(list) :
                          i < j => list[i].createdAt >= list[j].createdAt
           /\ (fetchRuns[r].pc = "following" /\ FollowingDone(r, TRUE)
                  /\ following = {}) =>
                 followedDiaries'[fetchRuns[r].sess] = <<>>
      ]_vars

\* C16 witness: two diaries of one followed user with createdAt seconds lie
\* within the 24 hours, and the loaded list shows the later one alone.
LatestOfTwoListed ==
    \E s \in FetchSessions :
        /\ isOpen[s] /\ ~diariesLoading[s]
        /\ Len(followedDiaries[s]) = 1
        /\ \E d \in diaries :
              /\ d.userId = followedDiaries[s][1].userId
              /\ d.createdAt # 0
              /\ d.createdAt > listedAt[s] - HoursPerDay
              /\ d.createdAt < followedDiaries[s][1].createdAt

\* C17 as stated, in the form a finite run refutes: once every run of
\* fetchDiaries an open modal started has ended (nobody followed, queries
\* answered, or a getDocs failed), diariesLoading is false.
DiariesLoadingEnds ==
    \A s \in FetchSessions :
        (isOpen[s] /\ \A r \in FetchSlots : fetchRuns[r].sess # s) => ~diariesLoading[s]

\* ------------------------------------------------------------ conversations: claims

\* The ids of an invocation in ascending code-unit order, joined by '_'.
IsSortedPairId(id, a, b) ==
    \E lo \in {a, b}, hi \in {a, b} :
        /\ {lo, hi} = {a, b}
        /\ ~LexLess(hi, lo)
        /\ id = lo \o <<95>> \o hi

ConvCalls == {"getDoc", "setDoc", "updateDoc", "addDoc", "updateLastMessage"}

\* C2: every invocation of startConversationWithUser addresses the document
\* whose id is its two participant ids in ascending order joined by '_'; the
\* invocations of A with target B and of B with target A address the same
\* document ('B' < 'a' < 'ab' by code units), and every conversation document
\* created carries the sorted pair of its participants as id.
ConversationIdSortedPair ==
    /\ \A r \in ConvSlots : convRuns[r].pc # "idle" =>
          /\ IsSortedPairId(convRuns[r].id, convRuns[r].cur, convRuns[r].target)
          /\ {convRuns[r].cur, convRuns[r].target} = {UA, UB}
                => convRuns[r].id = <<66, 95, 97>>
          /\ {convRuns[r].cur, convRuns[r].target} = {UA, UC}
                => convRuns[r].id = <<97, 95, 97, 98>>
          /\ {convRuns[r].cur, convRuns[r].target} = {UB, UC}
                => convRuns[r].id = <<66, 95, 97, 98>>
    /\ \A r \in ConvSlots, q \in ConvSlots :
          ( /\ convRuns[r].pc # "idle" /\ convRuns[q].pc # "idle"
            /\ convRuns[r].cur = convRuns[q].target
            /\ convRuns[r].target = convRuns[q].cur )
          => convRuns[r].id = convRuns[q].id
    /\ \A id \in ConvIds : conversations[id].exists =>
          IsSortedPairId(id, conversations[id].participants[1],
                             conversations[id].participants[2])

\* C2 witness: UA has started the conversation with UB and UB the one with UA;
\* both runs hold the id 'B_a' and the document exists.
BothDirectionsStarted ==
    /\ \E r \in ConvSlots, q \in ConvSlots :
          /\ convRuns[r].pc # "idle" /\ convRuns[r].cur = UA /\ convRuns[r].target = UB
          /\ convRuns[q].pc # "idle" /\ convRuns[q].cur = UB /\ convRuns[q].target = UA
          /\ convRuns[r].id = convRuns[q].id
    /\ conversations[<<66, 95, 97>>].exists

\* The calls a run has issued are distinct and in the order of the code.
IssuedInOrder(q) ==
    /\ \A i \in 1..Len(q), j \in 1..Len(q) : q[i] = q[j] => i = j
    /\ Len(q) >= 1 => q[1] = "getDoc"
    /\ Len(q) >= 2 => q[2] \in {"setDoc", "updateDoc"}
    /\ Len(q) >= 3 => q[3] = "addDoc"
    /\ Len(q) >= 4 => q[4] = "updateLastMessage"
    /\ Len(q) <= 4

\* C10: when a Firestore step of startConversationWithUser fails, the run ends
\* there: it issues no further call and repeats none, the collections are as
\* they were (the writes the run had applied are still there), and
\* activeConversationId, view and viewingDiary are unchanged; a run that has
\* failed stays ended.
NoRetryNoRollback ==
    [][ \A r \in ConvSlots :
           /\ IssuedInOrder(convRuns'[r].issued)
           /\ (convRuns[r].pc \in ConvCalls /\ convRuns'[r].pc = "failed") =>
                 /\ convRuns'[r].issued = convRuns[r].issued
                 /\ conversations' = conversations
                 /\ messages' = messages
                 /\ activeConversationId' = activeConversationId
                 /\ view' = view
                 /\ viewingDiary' = viewingDiary
                 /\ (\E i \in 1..Len(convRuns[r].issued) :
                        convRuns[r].issued[i] = "setDoc" /\ convRuns[r].pc # "setDoc")
                       => conversations'[convRuns[r].id].exists
                 /\ convRuns[r].pc = "updateLastMessage" =>
                       \E i \in 1..Len(messages') :
                           messages'[i] = [conv |-> convRuns[r].id,
                                           senderId |-> convRuns[r].cur,
                                           text |-> convRuns[r].msg]
           /\ convRuns[r].pc = "failed" => convRuns'[r] = convRuns[r]
      ]_vars

\* C10 witness: a reply to a diary failed at the update of lastMessage: the
\* conversation and the message are stored, lastMessage is not, the diary
\* overlay is still shown and no conversation is active.
ReplyFailedAtLastMessage ==
    \E r \in ConvSlots :
        /\ convRuns[r].pc = "failed"
        /\ convRuns[r].issued = <<"getDoc", "setDoc", "addDoc", "updateLastMessage">>
        /\ conversations[convRuns[r].id].exists
        /\ conversations[convRuns[r].id].lastMessage = NoMessage
        /\ Len(messages) = 1
        /\ activeConversationId[convRuns[r].sess] = Null
        /\ viewingDiary[convRuns[r].sess] # NoDiary


\* C12 as stated: once a conversation document exists no setDoc replaces it:
\* it stays, no pending setDoc on it succeeds, its participants stay as they
\* were written and a lastMessage it holds is not dropped; only timestamp and
\* lastMessage are updated.
ConversationNeverOverwritten ==
    [][ \A id \in ConvIds : conversations[id].exists =>
           /\ conversations'[id].exists
           /\ conversations'[id].participants = conversations[id].participants
           /\ conversations[id].lastMessage # NoMessage =>
                  conversations'[id].lastMessage # NoMessage
           /\ \A r \in ConvSlots :
                  (convRuns[r].pc = "setDoc" /\ convRuns[r].id = id) =>
                      convRuns'[r].pc \in {"setDoc", "failed"}
      ]_vars

\* The messages of the subcollection of conversation id, oldest first.
MessagesOf(id) == SelectSeq(messages, LAMBDA m : m.conv = id)

\* C13 as stated: when no invocation on a conversation is in flight and those
\* that carried an initial message have all completed without error, the
\* conversation's lastMessage has the sender and text of the message added
\* last to its messages subcollection (stated for the conversations that at
\* most one invocation issued a setDoc for, so that no setDoc replaced the
\* document).
LastMessageIsLatest ==
    \A id \in ConvIds :
        LET onId == {r \in ConvSlots : convRuns[r].pc # "idle" /\ convRuns[r].id = id}
            withMsg == {r \in onId : convRuns[r].msg # <<>>}
            added == MessagesOf(id)
        IN ( /\ withMsg # {}
             /\ \A r \in withMsg : convRuns[r].pc = "finished"
             /\ \A r \in onId : convRuns[r].pc \in {"finished", "failed"}
             /\ Cardinality({r \in onId : \E i \in 1..Len(convRuns[r].issued) :
                                 convRuns[r].issued[i] = "setDoc"}) <= 1 )
           => /\ added # <<>>
              /\ conversations[id].lastMessage =
                    [senderId |-> added[Len(added)].senderId,
                     text |-> added[Len(added)].text]

\* C14 as stated: while the modal of a session is closed, its
\* activeConversationId is null and its view is 'list'.
ClosedModalIsReset ==
    \A s \in Sessions :
        ~isOpen[s] => (activeConversationId[s] = Null /\ view[s] = "list")

\* Session s has a run of startConversationWithUser newly started in this
\* step, for the given target and without initial message.
StartedFor(s, tg) ==
    \E r \in ConvSlots :
        /\ convRuns[r].pc = "idle"
        /\ convRuns'[r] = [pc |-> "getDoc", sess |-> s, cur |-> sessUser[s],
                           target |-> tg, id |-> ConversationId(sessUser[s], tg),
                           msg |-> <<>>, issued |-> <<"getDoc">>]
        /\ \A q \in ConvSlots \ {r} : convRuns'[q] = convRuns[q]

\* C15: on opening the modal initialConversationId has priority over
\* initialTargetUser. Opened with a non-null initialConversationId,
\* activeConversationId becomes it and nothing is read or written, whatever
\* initialTargetUser is; startConversationWithUser runs (its getDoc issued,
\* activeConversationId left as it is) exactly when initialConversationId is
\* null and initialTargetUser is not; with both null activeConversationId
\* becomes null.
InitialConversationIdPriority ==
    [][ \A s \in Sessions, tg \in ConvTargets, cid \in ConvLinks :
           (~isOpen[s] /\ isOpen'[s] /\ OpenModalConv(s, tg, cid)) =>
              /\ conversations' = conversations /\ messages' = messages
              /\ cid # Null =>
                    /\ activeConversationId'[s] = cid
                    /\ convRuns' = convRuns
              /\ (cid = Null /\ tg # Null) =>
                    /\ StartedFor(s, tg)
                    /\ activeConversationId' = activeConversationId
              /\ (cid = Null /\ tg = Null) =>
                    /\ activeConversationId'[s] = Null
                    /\ convRuns' = convRuns
              /\ (convRuns' # convRuns) => (cid = Null /\ tg # Null)
      ]_vars

\* C15 witness: session 2 of UB was opened on the conversation 'a_ab' of a
\* link while its own conversation with UA exists: the link is the active
\* conversation, no run was started for the session and no document of the
\* link's id was read or created.
OpenedOnLink ==
    /\ isOpen[2]
    /\ sessUser[2] = UB
    /\ activeConversationId[2] = ConversationId(UA, UC)
    /\ ~conversations[ConversationId(UA, UC)].exists
    /\ conversations[ConversationId(UA, UB)].exists
    /\ \A r \in ConvSlots : convRuns[r].sess # 2

\* ------------------------------------------------------------ share modal: claims

\* C6: whenever a run of generateImage fills the canvas, the fill is the tier
\* of the streak it was given: solid gray for streak <= 3, the two-stop
\* blue-to-indigo gradient for 4 <= streak <= 6, the three-stop
\* amber-red-violet gradient for streak >= 7; exactly one tier applies.
BackgroundThreeTiers ==
    [][ \A r \in GenSlots :
           (genRuns[r].pc # "loading" /\ genRuns'[r].pc = "loading") =>
              LET k == streak'
                  bg == canvases'[genRuns'[r].canvas].bg
              IN /\ (k <= 3) => bg = [kind |-> "solid", stops |-> <<"#374151">>]
                 /\ (4 <= k /\ k <= 6) =>
                       bg = [kind |-> "linear", stops |-> <<"#3B82F6", "#6366F1">>]
                 /\ (k >= 7) =>
                       bg = [kind |-> "linear",
                             stops |-> <<"#F59E0B", "#EF4444", "#8B5CF6">>]
                 /\ Cardinality({i \in 1..3 :
                        \/ i = 1 /\ k <= 3
                        \/ i = 2 /\ 4 <= k /\ k <= 6
                        \/ i = 3 /\ k >= 7}) = 1
      ]_vars

\* C6 witness: a run given streak 6 has filled the canvas with the blue-to-indigo
\* gradient and awaits the avatars.
StreakSixFilled ==
    /\ streak = 6
    /\ \E r \in GenSlots :
          /\ genRuns[r].pc = "loading"
          /\ canvases[genRuns[r].canvas].bg.stops = <<"#3B82F6", "#6366F1">>

\* C8 as stated: whenever a publish fails (toBlob throws, the blob is null, or
\* uploadBytes, getDownloadURL or addDoc rejects), error becomes the share
\* error and isPublishing becomes false.
PublishFailureReported ==
    [][ (pubRun.pc # "failed" /\ pubRun'.pc = "failed") =>
           (error' = "shareError" /\ ~isPublishing') ]_vars

\* C9 as stated: a run of generateImage whose avatar load fails sets the
\* image-load error and finishes (text drawn, data URL stored, isGenerating
\* false); the publish button is disabled while error is non-empty; and no
\* pulse is created from an image whose avatars failed to load (an image
\* showing no avatars, the load for it having failed).
AvatarFailureBlocksPublish ==
    [][ /\ \A r \in GenSlots :
             (genRuns[r].pc = "loading" /\ genRuns'[r].pc = "failed") =>
                 /\ error' = "imageLoadError"
                 /\ ~isGenerating'
                 /\ canvases'[genRuns[r].canvas].text
                 /\ generatedImage' = canvases'[genRuns[r].canvas]
        /\ error' # "" => PublishDisabled'
        /\ \A p \in pulses' \ pulses : ~(p.loadFailed /\ ~p.avatars)
      ]_vars

\* The step runs the generateImage effect: isOpen became true, or crystalData
\* changed while the modal is open.
EffectRuns ==
    \/ \E ctxOk \in BOOLEAN : ShareOpen(ctxOk)
    \/ CrystalDataChange(streak')

\* The run the effect started in this step awaits its image loads.
RunStarted == \E r \in GenSlots : genRuns'[r].last /\ genRuns'[r].pc = "loading"

\* C11: image generation is bounded. A run that returns early (no canvas, no
\* photoURL or no 2D context) ends at once with isGenerating false,
\* generatedImage null and the canvas error; without a photoURL every run
\* returns early; a run that awaited its image loads ends, on success and on
\* a failed load, with isGenerating false; and, every image load settling,
\* each run that awaits its loads ends.
GenerationBounded ==
    /\ [][ /\ (EffectRuns /\ ~RunStarted) =>
                 /\ ~isGenerating'
                 /\ generatedImage' = NoImage
                 /\ error' = "canvasError"
           /\ (EffectRuns /\ ~hasPhoto) =>
                 \A r \in GenSlots : genRuns'[r].pc = "idle"
           /\ \A r \in GenSlots :
                 (genRuns[r].pc = "loading" /\ genRuns'[r].pc # "loading") =>
                    /\ ~isGenerating'
                    /\ genRuns'[r].pc \in {"finished", "failed"}
                    /\ generatedImage' # NoImage
         ]_vars
    /\ \A r \in GenSlots :
          (genRuns[r].pc = "loading") ~> (genRuns[r].pc \in {"finished", "failed"})

\* C11 witness: one run has ended with its avatars drawn, one with a failed
\* load, and the run started last returned early with the canvas error.
GenerationPathsEnded ==
    /\ shareOpen
    /\ error = "canvasError"
    /\ ~isGenerating
    /\ generatedImage = NoImage
    /\ \E r \in GenSlots : genRuns[r].pc = "finished"
    /\ \E r \in GenSlots : genRuns[r].pc = "failed"

\* C20 as stated: while any run of generateImage awaits its image loads
\* isGenerating is true; and once no run is in flight, the canvas of the run
\* started last shows that run's drawing alone (the background and the
\* streak text of its props) and generatedImage is the image of that canvas.
OverlapLastRunWins ==
    /\ (\E r \in GenSlots : genRuns[r].pc = "loading") => isGenerating
    /\ \A r \in GenSlots :
          ( /\ genRuns[r].last
            /\ \A q \in GenSlots : genRuns[q].pc # "loading" )
          => /\ canvases[genRuns[r].canvas].bg = Background(genRuns[r].streak)
             /\ canvases[genRuns[r].canvas].texts = <<genRuns[r].streak>>
             /\ generatedImage = canvases[genRuns[r].canvas]

====
